---- MODULE Spec2Model ----
(***************************************************************************)
(* Pangea guard tools of langchain_community.tools.pangea:                 *)
(*   PangeaDomainIntelGuard, PangeaIpIntelGuard, PangeaAIGuard.            *)
(*                                                                         *)
(* A Python str is a sequence of one-character strings.  An Optional value *)
(* is a sequence of length 0 (None) or 1 (the value).                      *)
(***************************************************************************)
EXTENDS Integers, Sequences, FiniteSets, TLC

VARIABLES environ, ctor, tool, clients, threads

vars == <<environ, ctor, tool, clients, threads>>

None == <<>>

Some(x) == <<x>>

\* number of concurrent invocations of the one tool instance
NumThreads == 2

----------------------------------------------------------------------------
(* Character classes of Python's re module, ASCII part.                    *)

Lower == {"a", "b", "c", "d", "e", "f", "g", "h", "i", "j", "k", "l", "m",
          "n", "o", "p", "q", "r", "s", "t", "u", "v", "w", "x", "y", "z"}

Upper == {"A", "B", "C", "D", "E", "F", "G", "H", "I", "J", "K", "L", "M",
          "N", "O", "P", "Q", "R", "S", "T", "U", "V", "W", "X", "Y", "Z"}

\* \d
Digits == {"0", "1", "2", "3", "4", "5", "6", "7", "8", "9"}

\* [a-zA-Z]
Letters == Lower \cup Upper

\* [a-zA-Z0-9-]
LabelChars == Letters \cup Digits \cup {"-"}

\* \w
WordChars == Letters \cup Digits \cup {"_"}

\* \b at the position in front of t[i] (i in 1..Len(t)+1)
WordBoundary(t, i) ==
    LET before == i > 1 /\ t[i - 1] \in WordChars
        after  == i <= Len(t) /\ t[i] \in WordChars
    IN  before # after

\* first position at or after i whose character is not in class: the end of
\* the greedy run class* started at i
RECURSIVE RunEnd(_, _, _)
RunEnd(t, i, class) ==
    IF i <= Len(t) /\ t[i] \in class THEN RunEnd(t, i + 1, class) ELSE i

----------------------------------------------------------------------------
(* The two patterns.  A match is reported by the position after its last   *)
(* character, 0 meaning no match at this start.                            *)

ip_pattern == "\\b(?:\\d{1,3}\\.){3}\\d{1,3}\\b"

domain_pattern == "\\b(?:[a-zA-Z0-9-]+\\.)+[a-zA-Z]{2,}\\b"

\* \d{1,3}\. at i: a run of digits can only be followed by "." when it is
\* the whole run, so backtracking has one candidate.  0 or the next position.
IpGroup(t, i) ==
    LET j == RunEnd(t, i, Digits)
    IN  IF i # 0 /\ j - i >= 1 /\ j - i <= 3 /\ j <= Len(t) /\ t[j] = "."
        THEN j + 1 ELSE 0

\* \d{1,3}\b at i: \b after a digit needs a non-word character or the end
IpLast(t, i) ==
    LET j == RunEnd(t, i, Digits)
    IN  IF i # 0 /\ j - i >= 1 /\ j - i <= 3 /\ WordBoundary(t, j)
        THEN j ELSE 0

IpMatchEnd(t, i) ==
    IF WordBoundary(t, i)
    THEN IpLast(t, IpGroup(t, IpGroup(t, IpGroup(t, i))))
    ELSE 0

\* [a-zA-Z0-9-]+\. at i
DomainLabel(t, i) ==
    LET j == RunEnd(t, i, LabelChars)
    IN  IF j - i >= 1 /\ j <= Len(t) /\ t[j] = "." THEN j + 1 ELSE 0

\* [a-zA-Z]{2,}\b at i
DomainLast(t, i) ==
    LET j == RunEnd(t, i, Letters)
    IN  IF j - i >= 2 /\ WordBoundary(t, j) THEN j ELSE 0

\* the rest of (?:label)+ last, one label already consumed: the greedy +
\* tries one more label first and falls back to the last label
RECURSIVE DomainTail(_, _)
DomainTail(t, i) ==
    LET next == DomainLabel(t, i)
        more == IF next # 0 THEN DomainTail(t, next) ELSE 0
    IN  IF more # 0 THEN more ELSE DomainLast(t, i)

DomainMatchEnd(t, i) ==
    IF WordBoundary(t, i) /\ DomainLabel(t, i) # 0
    THEN DomainTail(t, DomainLabel(t, i))
    ELSE 0

MatchEnd(pattern, t, i) ==
    IF pattern = ip_pattern THEN IpMatchEnd(t, i) ELSE DomainMatchEnd(t, i)

\* re.findall scanning from position i: leftmost match, then on from its end
RECURSIVE FindAllFrom(_, _, _)
FindAllFrom(pattern, t, i) ==
    IF i > Len(t) THEN <<>>
    ELSE LET e == MatchEnd(pattern, t, i)
         IN  IF e # 0
             THEN <<SubSeq(t, i, e - 1)>> \o FindAllFrom(pattern, t, e)
             ELSE FindAllFrom(pattern, t, i + 1)


----------------------------------------------------------------------------
(* Construction.                                                           *)

Kinds == {"domain", "ip", "ai"}

DefaultThreshold == 80

DefaultRecipe == "pangea_prompt_guard"

DefaultEnvKey ==
    [k \in Kinds |-> CASE k = "domain" -> "PANGEA_DOMAIN_INTEL_TOKEN"
                       [] k = "ip"     -> "PANGEA_IP_INTEL_TOKEN"
                       [] k = "ai"     -> "PANGEA_AI_GUARD_TOKEN"]

CustomEnvKey == "MY_PANGEA_TOKEN"

EnvNames == {DefaultEnvKey[k] : k \in Kinds} \cup {CustomEnvKey}

\* the secret a variable holds when it is set and not empty
EnvSecret == [n \in EnvNames |-> CASE n = "PANGEA_DOMAIN_INTEL_TOKEN" -> "env-domain"
                                   [] n = "PANGEA_IP_INTEL_TOKEN"     -> "env-ip"
                                   [] n = "PANGEA_AI_GUARD_TOKEN"     -> "env-ai"
                                   [] n = CustomEnvKey                -> "env-custom"]

\* os.environ: a variable is unset, empty or holds its secret
Environs ==
    UNION {{e \in [S -> {""} \cup {EnvSecret[n] : n \in S}] :
              \A n \in S : e[n] \in {"", EnvSecret[n]}} : S \in SUBSET EnvNames}

\* os.getenv(key, default)
getenv(env, key, default) == IF key \in DOMAIN env THEN env[key] ELSE default

\* SecretStr(value)
SecretStr(value) == Some(value)

get_secret_value(token) == token[1]

\* truth value of an Optional[SecretStr]: None is false, and SecretStr has
\* __len__, so a SecretStr of the empty string is false as well
Truthy(token) == token # None /\ get_secret_value(token) # ""

TokenArgs == {None, SecretStr(""), SecretStr("arg-secret")}

Thresholds == {DefaultThreshold, DefaultThreshold + 1}

Recipes == {DefaultRecipe, "pangea_llm_response_guard"}

ValueError(token_env_key_name) ==
    [type |-> "ValueError", message |-> <<token_env_key_name, "must be set or passed">>]

\* env overrides the explicit argument
DomainIntelGuard_init_env_first(token, threshold, token_env_key_name, env) ==
    LET tok == SecretStr(getenv(env, token_env_key_name, ""))
    IN  IF ~Truthy(tok)
        THEN [raised |-> Some(ValueError(token_env_key_name)),
              self |-> None, constructed |-> <<>>]
        ELSE LET client == [service |-> "DomainIntel",
                            token |-> get_secret_value(tok)]
             IN  [raised |-> None,
                  self |-> Some([kind |-> "domain", threshold |-> threshold,
                                 client |-> client]),
                  constructed |-> <<client>>]

\* the emptiness check left out
DomainIntelGuard_init_unchecked(token, threshold, token_env_key_name, env) ==
    LET tok == IF ~Truthy(token)
               THEN SecretStr(getenv(env, token_env_key_name, ""))
               ELSE token
        client == [service |-> "DomainIntel", token |-> get_secret_value(tok)]
    IN  [raised |-> None,
         self |-> Some([kind |-> "domain", threshold |-> threshold,
                        client |-> client]),
         constructed |-> <<client>>]

\* PangeaDomainIntelGuard.__init__: the exception raised, the instance and
\* the vendor clients constructed on the way
DomainIntelGuard_init(token, threshold, token_env_key_name, env) ==
    LET tok == IF ~Truthy(token)
               THEN SecretStr(getenv(env, token_env_key_name, ""))
               ELSE token
    IN  IF ~Truthy(tok) \/ get_secret_value(tok) = ""
        THEN [raised |-> Some(ValueError(token_env_key_name)),
              self |-> None, constructed |-> <<>>]
        ELSE LET client == [service |-> "DomainIntel",
                            token |-> get_secret_value(tok)]
             IN  [raised |-> None,
                  self |-> Some([kind |-> "domain", threshold |-> threshold,
                                 client |-> client]),
                  constructed |-> <<client>>]

\* PangeaIpIntelGuard.__init__
IpIntelGuard_init(token, threshold, token_env_key_name, env) ==
    LET tok == IF ~Truthy(token)
               THEN SecretStr(getenv(env, token_env_key_name, ""))
               ELSE token
    IN  IF ~Truthy(tok) \/ get_secret_value(tok) = ""
        THEN [raised |-> Some(ValueError(token_env_key_name)),
              self |-> None, constructed |-> <<>>]
        ELSE LET client == [service |-> "IpIntel",
                            token |-> get_secret_value(tok)]
             IN  [raised |-> None,
                  self |-> Some([kind |-> "ip", threshold |-> threshold,
                                 client |-> client]),
                  constructed |-> <<client>>]

\* PangeaAIGuard.__init__
AIGuard_init(pangea_token, recipe, pangea_token_env_key_name, env) ==
    LET tok == IF ~Truthy(pangea_token)
               THEN SecretStr(getenv(env, pangea_token_env_key_name, ""))
               ELSE pangea_token
    IN  IF ~Truthy(tok) \/ get_secret_value(tok) = ""
        THEN [raised |-> Some(ValueError(pangea_token_env_key_name)),
              self |-> None, constructed |-> <<>>]
        ELSE LET client == [service |-> "AIGuard",
                            token |-> get_secret_value(tok)]
             IN  [raised |-> None,
                  self |-> Some([kind |-> "ai", recipe |-> recipe,
                                 client |-> client]),
                  constructed |-> <<client>>]

\* the constructor call a ctor record describes
New(c, env) ==
    CASE c.kind = "domain" ->
           DomainIntelGuard_init(c.token, c.threshold, c.token_env_key_name, env)
      [] c.kind = "ip" ->
           IpIntelGuard_init(c.token, c.threshold, c.token_env_key_name, env)
      [] c.kind = "ai" ->
           AIGuard_init(c.token, c.recipe, c.token_env_key_name, env)

\* constructor calls: threshold is an argument of the intel guards only,
\* recipe of the AI guard only
CtorCalls(kind) ==
    {[kind |-> kind, token |-> t, token_env_key_name |-> n,
      threshold |-> th, recipe |-> r] :
        t \in TokenArgs, n \in {DefaultEnvKey[kind], CustomEnvKey},
        th \in IF kind = "ai" THEN {DefaultThreshold} ELSE Thresholds,
        r \in IF kind = "ai" THEN Recipes ELSE {DefaultRecipe}}

----------------------------------------------------------------------------
(* Invocation frames.                                                      *)

Threads == 1..NumThreads

IdleFrame == [pc |-> "idle", input_text |-> <<>>, calls |-> <<>>,
              response |-> None, output |-> None, error |-> None]

\* input texts
Texts ==
    { <<"o", "k">>,
      <<"x", ".", "i", "o">>,
      <<"x", ".", "i", "o", ",", "y", ".", "i", "o">>,
      <<"1", ".", "2", ".", "3", ".", "4">>,
      <<"1", ".", "2", ".", "3", ".", "4", " ", "9", "9", "9", ".", "0", ".", "0", ".", "1">> }

\* re.findall(pattern, t) for the input texts, computed once
FindAllTable ==
    [pattern \in {ip_pattern, domain_pattern} |->
        [t \in Texts |-> FindAllFrom(pattern, t, 1)]]

re_findall(pattern, t) == FindAllTable[pattern][t]

DomainBlockMessage ==
    <<"M", "a", "l", "i", "c", "i", "o", "u", "s", " ", "d", "o", "m", "a",
      "i", "n", "s", " ", "f", "o", "u", "n", "d", " ", "i", "n", " ", "t",
      "h", "e", " ", "p", "r", "o", "v", "i", "d", "e", "d", " ", "i", "n",
      "p", "u", "t", ".">>

IpBlockMessage ==
    <<"M", "a", "l", "i", "c", "i", "o", "u", "s", " ", "I", "P", "s", " ",
      "f", "o", "u", "n", "d", " ", "i", "n", " ", "t", "h", "e", " ", "p",
      "r", "o", "v", "i", "d", "e", "d", " ", "i", "n", "p", "u", "t", ".">>

InvalidResult(type) == [type |-> type, message |-> <<"Result is invalid or missing">>]

\* the frame of an invocation that returned value
Returned(frame, value) == [frame EXCEPT !.pc = "returned", !.output = Some(value)]

\* the frame of an invocation that an exception left
Raised(frame, exc) == [frame EXCEPT !.pc = "raised", !.error = Some(exc)]

\* the frame of an invocation inside its vendor call(s)
Blocked(input_text, requests) ==
    [IdleFrame EXCEPT !.pc = "blocked", !.input_text = input_text,
                      !.calls = requests]

----------------------------------------------------------------------------
(* The vendor service: what a call may answer.                             *)

\* every entity of every input text, the keys a bulk answer may hold
Entities(pattern) ==
    UNION {{re_findall(pattern, t)[i] : i \in 1..Len(re_findall(pattern, t))} :
             t \in Texts}

Scores == {DefaultThreshold - 1, DefaultThreshold, DefaultThreshold + 1}

\* result.data of reputation_bulk: entity -> data with a score
DataMaps(pattern) ==
    UNION {[K -> [score : Scores]] : K \in SUBSET Entities(pattern)}

VendorFailure == [type |-> "PangeaAPIException", message |-> <<"vendor">>]

\* the call raises, answers without a result, or answers with one
IntelResponses(pattern) ==
    {[raised |-> Some(VendorFailure), result |-> None],
     [raised |-> None, result |-> None]}
    \cup {[raised |-> None, result |-> Some([data |-> d])] : d \in DataMaps(pattern)}

DomainResponses == IntelResponses(domain_pattern)

IpResponses == IntelResponses(ip_pattern)

Redactions == {None, Some(<<>>), Some(<<"*", "*", "*", "*">>)}

AIResponses ==
    {[raised |-> Some(VendorFailure), result |-> None],
     [raised |-> None, result |-> None]}
    \cup {[raised |-> None, result |-> Some([redacted_prompt |-> r])] : r \in Redactions}

----------------------------------------------------------------------------
(* PangeaDomainIntelGuard._process_text, up to the vendor call and from    *)
(* its answer on.  Each part yields the instance and the frame it leaves.  *)

\* no short circuit on an empty list
DomainIntelGuard_process_text_call_always(self, input_text) ==
    LET domains == re_findall(domain_pattern, input_text)
    IN  [self |-> self,
         frame |-> Blocked(input_text,
                     <<[client |-> self.client, method |-> "reputation_bulk",
                        arg |-> domains]>>)]

DomainIntelGuard_process_text_call(self, input_text) ==
    LET domains == re_findall(domain_pattern, input_text)
    IN  IF Len(domains) = 0
        THEN [self |-> self,
              frame |-> Returned([IdleFrame EXCEPT !.input_text = input_text],
                                 input_text)]
        ELSE [self |-> self,
              frame |-> Blocked(input_text,
                          <<[client |-> self.client, method |-> "reputation_bulk",
                             arg |-> domains]>>)]

\* > in place of >=
DomainIntelGuard_process_text_return_strict(self, frame, intel) ==
    IF intel.raised # None
    THEN [self |-> self, frame |-> Raised(frame, intel.raised[1])]
    ELSE IF intel.result = None
    THEN [self |-> self,
          frame |-> Raised(frame, InvalidResult("PangeaDomainIntelGuardError"))]
    ELSE LET data == intel.result[1].data
         IN  IF \E k \in DOMAIN data : data[k].score > self.threshold
             THEN [self |-> self, frame |-> Returned(frame, DomainBlockMessage)]
             ELSE [self |-> self, frame |-> Returned(frame, frame.input_text)]

\* the class default in place of the configured threshold
DomainIntelGuard_process_text_return_default(self, frame, intel) ==
    IF intel.raised # None
    THEN [self |-> self, frame |-> Raised(frame, intel.raised[1])]
    ELSE IF intel.result = None
    THEN [self |-> self,
          frame |-> Raised(frame, InvalidResult("PangeaDomainIntelGuardError"))]
    ELSE LET data == intel.result[1].data
         IN  IF \E k \in DOMAIN data : data[k].score >= DefaultThreshold
             THEN [self |-> self, frame |-> Returned(frame, DomainBlockMessage)]
             ELSE [self |-> self, frame |-> Returned(frame, frame.input_text)]

\* a block lowers the instance's threshold for later invocations
DomainIntelGuard_process_text_return_ratchet(self, frame, intel) ==
    IF intel.raised # None
    THEN [self |-> self, frame |-> Raised(frame, intel.raised[1])]
    ELSE IF intel.result = None
    THEN [self |-> self,
          frame |-> Raised(frame, InvalidResult("PangeaDomainIntelGuardError"))]
    ELSE LET data == intel.result[1].data
         IN  IF \E k \in DOMAIN data : data[k].score >= self.threshold
             THEN [self |-> [self EXCEPT !.threshold = DefaultThreshold - 1],
                   frame |-> Returned(frame, DomainBlockMessage)]
             ELSE [self |-> self, frame |-> Returned(frame, frame.input_text)]

DomainIntelGuard_process_text_return(self, frame, intel) ==
    IF intel.raised # None
    THEN [self |-> self, frame |-> Raised(frame, intel.raised[1])]
    ELSE IF intel.result = None
    THEN [self |-> self,
          frame |-> Raised(frame, InvalidResult("PangeaDomainIntelGuardError"))]
    ELSE LET data == intel.result[1].data
         IN  IF \E k \in DOMAIN data : data[k].score >= self.threshold
             THEN [self |-> self, frame |-> Returned(frame, DomainBlockMessage)]
             ELSE [self |-> self, frame |-> Returned(frame, frame.input_text)]

----------------------------------------------------------------------------
(* PangeaIpIntelGuard._process_text                                        *)

\* one reputation call per address
IpIntelGuard_process_text_call_each(self, input_text) ==
    LET ips == re_findall(ip_pattern, input_text)
    IN  IF Len(ips) = 0
        THEN [self |-> self,
              frame |-> Returned([IdleFrame EXCEPT !.input_text = input_text],
                                 input_text)]
        ELSE [self |-> self,
              frame |-> Blocked(input_text,
                          [i \in 1..Len(ips) |->
                             [client |-> self.client, method |-> "reputation_bulk",
                              arg |-> <<ips[i]>>]])]

IpIntelGuard_process_text_call(self, input_text) ==
    LET ips == re_findall(ip_pattern, input_text)
    IN  IF Len(ips) = 0
        THEN [self |-> self,
              frame |-> Returned([IdleFrame EXCEPT !.input_text = input_text],
                                 input_text)]
        ELSE [self |-> self,
              frame |-> Blocked(input_text,
                          <<[client |-> self.client, method |-> "reputation_bulk",
                             arg |-> ips]>>)]

\* no check of the result: reading .data of None raises AttributeError
IpIntelGuard_process_text_return_unchecked(self, frame, intel) ==
    IF intel.raised # None
    THEN [self |-> self, frame |-> Raised(frame, intel.raised[1])]
    ELSE IF intel.result = None
    THEN [self |-> self,
          frame |-> Raised(frame, [type |-> "AttributeError",
                                   message |-> <<"data">>])]
    ELSE LET data == intel.result[1].data
         IN  IF \E k \in DOMAIN data : data[k].score >= self.threshold
             THEN [self |-> self, frame |-> Returned(frame, IpBlockMessage)]
             ELSE [self |-> self, frame |-> Returned(frame, frame.input_text)]

IpIntelGuard_process_text_return(self, frame, intel) ==
    IF intel.raised # None
    THEN [self |-> self, frame |-> Raised(frame, intel.raised[1])]
    ELSE IF intel.result = None
    THEN [self |-> self,
          frame |-> Raised(frame, InvalidResult("PangeaIpGuardError"))]
    ELSE LET data == intel.result[1].data
         IN  IF \E k \in DOMAIN data : data[k].score >= self.threshold
             THEN [self |-> self, frame |-> Returned(frame, IpBlockMessage)]
             ELSE [self |-> self, frame |-> Returned(frame, frame.input_text)]

----------------------------------------------------------------------------
(* PangeaAIGuard._run                                                      *)

AIGuard_run_call(self, input_text) ==
    [self |-> self,
     frame |-> Blocked(input_text,
                 <<[client |-> self.client, method |-> "guard_text",
                    arg |-> input_text, recipe |-> self.recipe]>>)]

\* "is not None" in place of the truth value of redacted_prompt
AIGuard_run_return_not_none(self, frame, guarded) ==
    IF guarded.raised # None
    THEN [self |-> self, frame |-> Raised(frame, guarded.raised[1])]
    ELSE IF guarded.result = None
    THEN [self |-> self,
          frame |-> Raised(frame, InvalidResult("PangeaAIGuardError"))]
    ELSE LET redacted_prompt == guarded.result[1].redacted_prompt
         IN  IF redacted_prompt # None
             THEN [self |-> self, frame |-> Returned(frame, redacted_prompt[1])]
             ELSE [self |-> self, frame |-> Returned(frame, frame.input_text)]

\* the vendor's exception caught and the input passed through
AIGuard_run_return_swallow(self, frame, guarded) ==
    IF guarded.raised # None
    THEN [self |-> self, frame |-> Returned(frame, frame.input_text)]
    ELSE IF guarded.result = None
    THEN [self |-> self,
          frame |-> Raised(frame, InvalidResult("PangeaAIGuardError"))]
    ELSE LET redacted_prompt == guarded.result[1].redacted_prompt
         IN  IF redacted_prompt # None /\ redacted_prompt[1] # <<>>
             THEN [self |-> self, frame |-> Returned(frame, redacted_prompt[1])]
             ELSE [self |-> self, frame |-> Returned(frame, frame.input_text)]

AIGuard_run_return(self, frame, guarded) ==
    IF guarded.raised # None
    THEN [self |-> self, frame |-> Raised(frame, guarded.raised[1])]
    ELSE IF guarded.result = None
    THEN [self |-> self,
          frame |-> Raised(frame, InvalidResult("PangeaAIGuardError"))]
    ELSE LET redacted_prompt == guarded.result[1].redacted_prompt
         IN  IF redacted_prompt # None /\ redacted_prompt[1] # <<>>
             THEN [self |-> self, frame |-> Returned(frame, redacted_prompt[1])]
             ELSE [self |-> self, frame |-> Returned(frame, frame.input_text)]

----------------------------------------------------------------------------
(* Actions.                                                                *)

Construct(kind, c) ==
    /\ ctor = None
    /\ c \in CtorCalls(kind)
    /\ LET r == New(c, environ)
       IN  /\ ctor' = Some([call |-> c, raised |-> r.raised])
           /\ tool' = r.self
           /\ clients' = clients \o r.constructed
    /\ UNCHANGED <<environ, threads>>

ConstructDomain == \E c \in CtorCalls("domain") : Construct("domain", c)

ConstructIp == \E c \in CtorCalls("ip") : Construct("ip", c)

ConstructAI == \E c \in CtorCalls("ai") : Construct("ai", c)

\* before construction, in any environment
InitCtor ==
    /\ environ \in Environs
    /\ ctor = None
    /\ tool = None
    /\ clients = <<>>
    /\ threads = [i \in Threads |-> IdleFrame]

NextCtor == ConstructDomain \/ ConstructIp \/ ConstructAI

SpecCtor == InitCtor /\ [][NextCtor]_vars

----------------------------------------------------------------------------
(* Invocations of a constructed tool by concurrent callers.                *)

Free(i) == threads[i].pc \in {"idle", "returned", "raised"}

Step(i, r) ==
    /\ tool' = Some(r.self)
    /\ threads' = [threads EXCEPT ![i] = r.frame]
    /\ UNCHANGED <<environ, ctor, clients>>

\* thread i enters _process_text of the domain guard
DomainCall(i) ==
    /\ tool # None /\ tool[1].kind = "domain" /\ Free(i)
    /\ \E t \in Texts : Step(i, DomainIntelGuard_process_text_call(tool[1], t))

\* reputation_bulk answers thread i
DomainReturn(i) ==
    /\ tool # None /\ tool[1].kind = "domain" /\ threads[i].pc = "blocked"
    /\ \E intel \in DomainResponses :
          Step(i, DomainIntelGuard_process_text_return(tool[1],
                     [threads[i] EXCEPT !.response = Some(intel)], intel))

IpCall(i) ==
    /\ tool # None /\ tool[1].kind = "ip" /\ Free(i)
    /\ \E t \in Texts : Step(i, IpIntelGuard_process_text_call(tool[1], t))

IpReturn(i) ==
    /\ tool # None /\ tool[1].kind = "ip" /\ threads[i].pc = "blocked"
    /\ \E intel \in IpResponses :
          Step(i, IpIntelGuard_process_text_return(tool[1],
                     [threads[i] EXCEPT !.response = Some(intel)], intel))

AICall(i) ==
    /\ tool # None /\ tool[1].kind = "ai" /\ Free(i)
    /\ \E t \in Texts : Step(i, AIGuard_run_call(tool[1], t))

AIReturn(i) ==
    /\ tool # None /\ tool[1].kind = "ai" /\ threads[i].pc = "blocked"
    /\ \E guarded \in AIResponses :
          Step(i, AIGuard_run_return(tool[1],
                     [threads[i] EXCEPT !.response = Some(guarded)], guarded))

\* the environment in which the tools of Init are constructed
SetEnviron == [n \in EnvNames |-> EnvSecret[n]]

\* after a successful construction with the credential taken from the
\* default environment variable
Init ==
    /\ environ = SetEnviron
    /\ threads = [i \in Threads |-> IdleFrame]
    /\ \E k \in Kinds : \E c \in CtorCalls(k) :
          /\ c.token_env_key_name = DefaultEnvKey[k]
          /\ c.token = None
          /\ New(c, environ).raised = None
          /\ ctor = Some([call |-> c, raised |-> None])
          /\ tool = New(c, environ).self
          /\ clients = New(c, environ).constructed

Next ==
    \E i \in Threads :
        \/ DomainCall(i) \/ DomainReturn(i)
        \/ IpCall(i) \/ IpReturn(i)
        \/ AICall(i) \/ AIReturn(i)

Spec == Init /\ [][Next]_vars

----------------------------------------------------------------------------
(* Properties.                                                             *)

Self == tool[1]

IsIntel == tool # None /\ Self.kind \in {"domain", "ip"}

IsAI == tool # None /\ Self.kind = "ai"

Pattern == IF Self.kind = "ip" THEN ip_pattern ELSE domain_pattern

BlockMessage == IF Self.kind = "ip" THEN IpBlockMessage ELSE DomainBlockMessage

DedicatedError ==
    CASE Self.kind = "domain" -> "PangeaDomainIntelGuardError"
      [] Self.kind = "ip"     -> "PangeaIpGuardError"
      [] Self.kind = "ai"     -> "PangeaAIGuardError"

Finished(f) == f.pc \in {"returned", "raised"}

\* the entities the pattern finds in the frame's input
Found(f) == re_findall(Pattern, f.input_text)

FoundSet(f) == {Found(f)[n] : n \in 1..Len(Found(f))}

\* the vendor answered the frame's call with a result
Usable(f) ==
    /\ Finished(f)
    /\ f.response # None
    /\ f.response[1].raised = None
    /\ f.response[1].result # None

Data(f) == f.response[1].result[1].data

Redacted(f) == f.response[1].result[1].redacted_prompt

\* C1: an intel guard whose pattern finds nothing in the input returns the
\* input unchanged, has made no vendor call and raises nothing.
C1_NoMatchShortCircuit ==
    \A i \in Threads :
        LET f == threads[i]
        IN  (IsIntel /\ f.pc # "idle" /\ Len(Found(f)) = 0)
            => /\ f.pc = "returned"
               /\ f.output = Some(f.input_text)
               /\ f.calls = <<>>
               /\ f.response = None
               /\ f.error = None

C1_Witness ==
    \E i \in Threads :
        /\ IsIntel /\ threads[i].pc = "returned"
        /\ Len(Found(threads[i])) = 0
        /\ threads[i].input_text # <<>>
        /\ threads[i].output = Some(threads[i].input_text)

C3_FoundBelowPassesThrough ==
    \A i \in Threads :
        LET f == threads[i]
        IN  (/\ IsIntel /\ Usable(f) /\ Len(Found(f)) > 0
             /\ \A e \in FoundSet(f) :
                   e \in DOMAIN Data(f) => Data(f)[e].score < Self.threshold)
            => (f.pc = "returned" /\ f.output = Some(f.input_text))

\* C3: the decision is taken over every score the result's data holds: when
\* all of them are strictly below the threshold, the output is the input
\* text verbatim.
C3_AllBelowPassesThrough ==
    \A i \in Threads :
        LET f == threads[i]
        IN  (/\ IsIntel /\ Usable(f) /\ Len(Found(f)) > 0
             /\ \A k \in DOMAIN Data(f) : Data(f)[k].score < Self.threshold)
            => (f.pc = "returned" /\ f.output = Some(f.input_text))

C3_Witness ==
    \E i \in Threads :
        LET f == threads[i]
        IN  /\ IsIntel /\ Usable(f) /\ Len(Found(f)) = 2
            /\ FoundSet(f) \subseteq DOMAIN Data(f)
            /\ \A k \in DOMAIN Data(f) : Data(f)[k].score < Self.threshold
            /\ \E k \in DOMAIN Data(f) : Data(f)[k].score >= DefaultThreshold
            /\ f.output = Some(f.input_text)

\* C4: the AI guard with a usable result returns the redacted text when
\* there is a non-empty one and the input text otherwise.
C4_RedactedOrInput ==
    \A i \in Threads :
        LET f == threads[i]
        IN  (IsAI /\ Usable(f))
            => /\ f.pc = "returned"
               /\ (Redacted(f) = None \/ Redacted(f) = Some(<<>>))
                  => f.output = Some(f.input_text)
               /\ (Redacted(f) # None /\ Redacted(f) # Some(<<>>))
                  => f.output = Redacted(f)

C4_Witness ==
    \E i, j \in Threads :
        /\ IsAI /\ Usable(threads[i]) /\ Usable(threads[j])
        /\ Redacted(threads[i]) = Some(<<>>)
        /\ threads[i].output = Some(threads[i].input_text)
        /\ Redacted(threads[j]) \notin {None, Some(<<>>)}
        /\ threads[j].output = Redacted(threads[j])
        /\ threads[j].output # Some(threads[j].input_text)

\* C6: a vendor answer without a result makes the invocation raise the
\* guard's own error and return nothing.
C6_MissingResultRaisesDedicated ==
    \A i \in Threads :
        LET f == threads[i]
        IN  (/\ tool # None /\ Finished(f) /\ f.response # None
             /\ f.response[1].raised = None /\ f.response[1].result = None)
            => /\ f.pc = "raised"
               /\ f.error = Some(InvalidResult(DedicatedError))
               /\ f.output = None

C6_Witness ==
    \E i \in Threads :
        /\ tool # None /\ Self.kind = "ip" /\ threads[i].pc = "raised"
        /\ threads[i].response = Some([raised |-> None, result |-> None])
        /\ threads[i].error = Some(InvalidResult("PangeaIpGuardError"))

\* C7 as stated: every invocation makes exactly one vendor call.
C7_ExactlyOneCall ==
    \A i \in Threads : Finished(threads[i]) => Len(threads[i].calls) = 1

\* C7: an invocation makes at most one vendor call: none when an intel
\* guard finds no entity, else one batched request with all found entities
\* (for the AI guard, the whole text and the recipe).
C7_AtMostOneBatchedCall ==
    \A i \in Threads :
        LET f == threads[i]
        IN  (tool # None /\ f.pc # "idle")
            => /\ Len(f.calls) <= 1
               /\ Len(f.calls) = 0 <=> (IsIntel /\ Len(Found(f)) = 0)
               /\ (IsIntel /\ Len(f.calls) = 1)
                  => /\ f.calls[1].method = "reputation_bulk"
                     /\ f.calls[1].arg = Found(f)
                     /\ f.calls[1].client = Self.client
               /\ IsAI
                  => /\ f.calls[1].method = "guard_text"
                     /\ f.calls[1].arg = f.input_text
                     /\ f.calls[1].recipe = Self.recipe
                     /\ f.calls[1].client = Self.client

C7_Witness ==
    \E i \in Threads :
        /\ IsIntel /\ Finished(threads[i])
        /\ Len(Found(threads[i])) = 2
        /\ Len(threads[i].calls) = 1
        /\ Len(threads[i].calls[1].arg) = 2

\* C8: an exception of the vendor call leaves the invocation as it is,
\* after exactly one call and without a returned text.
C8_VendorFailurePropagates ==
    \A i \in Threads :
        LET f == threads[i]
        IN  (/\ tool # None /\ Finished(f) /\ f.response # None
             /\ f.response[1].raised # None)
            => /\ f.pc = "raised"
               /\ f.error = f.response[1].raised
               /\ Len(f.calls) = 1
               /\ f.output = None

C8_Witness ==
    \E i \in Threads :
        /\ IsAI /\ threads[i].pc = "raised"
        /\ threads[i].response # None
        /\ threads[i].error = Some(VendorFailure)

\* C10: invocations leave the instance as construction made it, and the
\* outcome of an invocation depends on its input and its vendor answer only.
C10_InvocationsLeaveToolUnchanged ==
    /\ ctor # None
    /\ tool = New(ctor[1].call, environ).self
    /\ clients = New(ctor[1].call, environ).constructed
    /\ \A i, j \in Threads :
          (/\ Finished(threads[i]) /\ Finished(threads[j])
           /\ threads[i].input_text = threads[j].input_text
           /\ threads[i].response = threads[j].response)
          => threads[i] = threads[j]

C10_Witness ==
    \E i, j \in Threads :
        /\ i # j /\ IsIntel
        /\ threads[i].pc = "returned" /\ threads[j].pc = "returned"
        /\ threads[i].response # None
        /\ threads[i].response = threads[j].response
        /\ threads[i].input_text = threads[j].input_text
        /\ threads[i].output = Some(BlockMessage)
        /\ threads[j].output = Some(BlockMessage)

----------------------------------------------------------------------------
(* Properties of construction, checked under SpecCtor.                     *)

Call == ctor[1].call

\* C5: without an explicit non-empty credential and with the named variable
\* unset or empty, construction raises the ValueError naming the variable,
\* no vendor client is constructed and no instance exists; no client ever
\* holds an empty token.
C5_MissingCredentialFailsFirst ==
    /\ (/\ ctor # None /\ ~Truthy(Call.token)
        /\ getenv(environ, Call.token_env_key_name, "") = "")
       => /\ ctor[1].raised = Some(ValueError(Call.token_env_key_name))
          /\ clients = <<>>
          /\ tool = None
    /\ \A n \in 1..Len(clients) : clients[n].token # ""
    /\ tool # None => Self.client.token # ""

C5_Witness ==
    /\ ctor # None /\ Call.kind = "ai"
    /\ Call.token = SecretStr("")
    /\ Call.token_env_key_name = CustomEnvKey
    /\ CustomEnvKey \in DOMAIN environ /\ environ[CustomEnvKey] = ""
    /\ getenv(environ, "PANGEA_AI_GUARD_TOKEN", "") = "env-ai"
    /\ ctor[1].raised = Some(ValueError(CustomEnvKey))
    /\ clients = <<>>

\* C9: a non-empty explicit secret is the token the vendor client gets,
\* whatever the environment holds; without one the client gets the value of
\* the named environment variable.
C9_TokenResolution ==
    ctor # None =>
        /\ Truthy(Call.token)
           => /\ ctor[1].raised = None
              /\ Len(clients) = 1
              /\ clients[1].token = get_secret_value(Call.token)
        /\ (~Truthy(Call.token) /\ ctor[1].raised = None)
           => /\ Len(clients) = 1
              /\ Call.token_env_key_name \in DOMAIN environ
              /\ clients[1].token = environ[Call.token_env_key_name]
        /\ tool # None => Self.client = clients[1]

C9_Witness ==
    /\ ctor # None /\ Call.kind = "domain"
    /\ Call.token = SecretStr("arg-secret")
    /\ Call.token_env_key_name = "PANGEA_DOMAIN_INTEL_TOKEN"
    /\ "PANGEA_DOMAIN_INTEL_TOKEN" \in DOMAIN environ
    /\ environ["PANGEA_DOMAIN_INTEL_TOKEN"] = "env-domain"
    /\ tool # None /\ Self.client.token = "arg-secret"

====
